---- MODULE Spec2Model ----
(***************************************************************************)
(* Model of py_utils.py: most_recent_model (the Locator), dump_diff_model  *)
(* (the Dumper) and sensitivity_analysis (the Sensitivity Reporter).       *)
(*                                                                         *)
(* A filename is a sequence of one-character strings, compared the way     *)
(* Python compares str values (code point by code point, a proper prefix   *)
(* being smaller).  A directory is a function from filenames to entries.   *)
(***************************************************************************)
EXTENDS Integers, Sequences, FiniteSets, TLC

(* ------------------------------ bounds --------------------------------- *)
MaxMicro == 1
MaxCalls == 2
MaxVoi == 2
MaxCell == 2

(* ------------------------- strings and ordering ------------------------ *)
\* The characters that occur in the model's filenames, in code point order.
Ascii ==
    << " ", "-", ".", "0", "1", "2", "3", "4", "5", "6", "7", "8", "9", ":",
       "_", "a", "b", "c", "d", "e", "f", "g", "h", "i", "j", "k", "l", "m",
       "n", "o", "p", "q", "r", "s", "t", "u", "v", "w", "x", "y", "z" >>

Ord(c) ==
    CHOOSE i \in 1..Len(Ascii) : Ascii[i] = c

RECURSIVE StrLess(_, _)
\* Python's a < b on str
StrLess(a, b) ==
    IF b = << >> THEN FALSE
    ELSE IF a = << >> THEN TRUE
    ELSE IF Head(a) # Head(b) THEN Ord(Head(a)) < Ord(Head(b))
    ELSE StrLess(Tail(a), Tail(b))

\* x.startswith(prefix)
StartsWith(x, prefix) ==
    /\ Len(prefix) <= Len(x)
    /\ SubSeq(x, 1, Len(prefix)) = prefix

Digit(d) ==
    Ascii[Ord("0") + d]

RECURSIVE ZeroPad(_, _)
\* '%0<width>d' % n
ZeroPad(n, width) ==
    IF width = 0 THEN << >>
    ELSE ZeroPad(n \div 10, width - 1) \o << Digit(n % 10) >>

(* ------------------------------- time ---------------------------------- *)
\* A datetime restricted to its second and microsecond fields; the date,
\* hour and minute are those of the docstring's example.
Times ==
    [second : {0, 1}, microsecond : 0..MaxMicro]

TimeLeq(s, t) ==
    \/ s.second < t.second
    \/ s.second = t.second /\ s.microsecond <= t.microsecond

DatePart ==
    << "2", "0", "1", "9", "-", "0", "5", "-", "2", "1", " ",
       "1", "2", ":", "0", "4", ":" >>

\* str(datetime): the fraction is omitted when microsecond is 0
DatetimeStr(t) ==
    DatePart \o ZeroPad(t.second, 2) \o
    (IF t.microsecond = 0 THEN << >>
     ELSE << "." >> \o ZeroPad(t.microsecond, 6))

Ext ==
    << ".", "j", "o", "b", "l", "i", "b" >>

\* f'{model_name}_{today}.joblib'
PathOfModelToSave(model_name, today) ==
    model_name \o << "_" >> \o DatetimeStr(today) \o Ext

HoldingPath ==
    << "h", "o", "l", "d", "i", "n", "g" >> \o Ext

(* --------------------------- the file system --------------------------- *)
\* One directory <wd>/Models/<subfolder>: filename |-> entry.
Procs ==
    {1, 2}

ModelNames ==
    { << "m" >>, << "m", "x" >> }

ModelVars ==
    {"A", "B", "C"}

\* joblib's serialization of the object: deterministic, B has the size of A
Pickle(model_var) ==
    CASE model_var = "A" -> << 1 >>
      [] model_var = "B" -> << 2 >>
      [] model_var = "C" -> << 1, 2 >>

\* the absence marker
None ==
    << >>

Epoch ==
    [second |-> 0, microsecond |-> 0]

\* an artifact of model "m" saved by an earlier session
OldModel ==
    PathOfModelToSave(<< "m" >>, Epoch)

SubDir ==
    << "m", "z", "d", "i", "r" >>

OtherFile ==
    << "o", "t", "h", "e", "r" >>

\* what the directory may hold before the first dump
InitDirs ==
    { [f \in S |-> IF f = SubDir
                   THEN [kind |-> "dir", bytes |-> << >>, mtime |-> Epoch]
                   ELSE [kind |-> "file", bytes |-> Pickle("A"), mtime |-> Epoch]]
      : S \in { {}, {SubDir, OtherFile}, {SubDir, OtherFile, OldModel} } }

\* line 23 without its isfile filter
IsEntry(d, f) ==
    f \in DOMAIN d

\* isfile(join(wd, 'Models', subfolder, f))
IsFile(d, f) ==
    f \in DOMAIN d /\ d[f].kind = "file"

RECURSIVE SortedReverse(_)
\* sorted(xs, reverse = True) of pairwise different strings
SortedReverse(xs) ==
    IF xs = {} THEN << >>
    ELSE LET top == CHOOSE x \in xs : \A y \in xs : y = x \/ StrLess(y, x)
         IN  << top >> \o SortedReverse(xs \ {top})

\* most_recent_model(model_name, wd, subfolder): the filename, or None
MostRecentModel(d, model_name) ==
    LET files_in_directory == {f \in DOMAIN d : IsFile(d, f)}
        matching == {x \in files_in_directory : StartsWith(x, model_name)}
    IN  IF Cardinality(matching) > 0
        THEN SortedReverse(matching)[1]
        ELSE None

\* a dump that writes no file
DumpNothing(d, path, model_var, t) ==
    d

\* dump(model_var, path) at file-system time t
Dump(d, path, model_var, t) ==
    [f \in DOMAIN d \cup {path} |->
        IF f = path
        THEN [kind |-> "file", bytes |-> Pickle(model_var), mtime |-> t]
        ELSE d[f]]

\* line 60 left out
OsRemoveNothing(d, path) ==
    d

\* os.remove(path)
OsRemove(d, path) ==
    [f \in DOMAIN d \ {path} |-> d[f]]

\* filecmp._sig: (type, size, mtime)
Sig(entry) ==
    << entry.kind, Len(entry.bytes), entry.mtime >>

\* filecmp.cmp(f1, f2) with its default shallow = True, both files present.
\* (Its result cache is keyed by both signatures and is not modelled.)
FileCmp(d, f1, f2) ==
    LET s1 == Sig(d[f1])
        s2 == Sig(d[f2])
    IN  IF s1[1] # "file" \/ s2[1] # "file" THEN FALSE
        ELSE IF s1 = s2 THEN TRUE
        ELSE IF s1[2] # s2[2] THEN FALSE
        ELSE d[f1].bytes = d[f2].bytes

(* ------------------------- dump_diff_model ----------------------------- *)
VARIABLES
    dir,            \* the directory <wd>/Models/<subfolder>
    clock,          \* the system time: datetime.today() reads it, possibly advanced
                    \* since the last call, and a write stamps its file with it
    pc,             \* per caller: the statement of dump_diff_model it is at
    call,           \* per caller: the locals of its running call
    log,            \* history: the finished calls, in order of completion
    holdingWriter,  \* history: who wrote the present holding file (0: nobody)
    holdingRemover  \* history: who removed the holding file last (0: nobody
                    \*          since it was last written)

dumpVars ==
    << dir, clock, pc, call, log, holdingWriter, holdingRemover >>

\* sensitivity_analysis
VARIABLES
    heap,           \* the DataFrame objects: "X_test" is the caller's matrix
    X_test_altered, \* the object the local X_test_altered is bound to
    sens_voi,       \* the argument: the features of interest
    multiplier,     \* the argument
    idx,            \* the position of the for loop in sens_voi
    sens_vars,      \* the local list
    sens_score,     \* the local list
    sens_df,        \* the returned table: a sequence of (feature, score) rows
    spc,            \* "off", "loop" or "done"
    X_orig,         \* history: the caller's matrix when the call began
    scored          \* history: the matrices handed to model.predict

sensVars ==
    << heap, X_test_altered, sens_voi, multiplier, idx, sens_vars, sens_score,
       sens_df, spc, X_orig, scored >>

NoCall ==
    [model_name |-> None, model_var |-> "A", today |-> Epoch,
     path_of_model_to_save |-> None, most_recent_model_path |-> None,
     pre |-> << >>, steps |-> << >>, outcome |-> "none",
     cmpWriter |-> 0, cmpBytes |-> << >>]

\* lines 54-55 moved before line 53
AfterHoldFirst(step) ==
    CASE step = "begin"  -> "hold"
      [] step = "hold"   -> "locate"
      [] step = "locate" -> "decide"
      [] step = "decide" -> "remove"
      [] step = "remove" -> "idle"

\* the statement order of dump_diff_model
After(step) ==
    CASE step = "begin"  -> "locate"
      [] step = "locate" -> "hold"
      [] step = "hold"   -> "decide"
      [] step = "decide" -> "remove"
      [] step = "remove" -> "idle"

AllIdle ==
    \A q \in Procs : pc[q] = "idle"

Running ==
    Cardinality({q \in Procs : pc[q] # "idle"})

\* lines 51-52: today = datetime.today(); path_of_model_to_save = ...
Begin(p) ==
    /\ pc[p] = "idle"
    /\ Len(log) + Running < MaxCalls
    /\ \E model_name \in ModelNames, model_var \in ModelVars, today \in Times :
          /\ TimeLeq(clock, today)
          /\ clock' = today
          /\ call' = [call EXCEPT ![p] =
                 [NoCall EXCEPT !.model_name = model_name,
                                !.model_var = model_var,
                                !.today = today,
                                !.path_of_model_to_save = PathOfModelToSave(model_name, today),
                                !.pre = dir]]
    /\ pc' = [pc EXCEPT ![p] = After("begin")]
    /\ UNCHANGED << dir, log, holdingWriter, holdingRemover >>
    /\ UNCHANGED sensVars

\* line 53: most_recent_model_path = most_recent_model(model_name, wd, subfolder)
Locate(p) ==
    /\ pc[p] = "locate"
    /\ call' = [call EXCEPT ![p].most_recent_model_path = MostRecentModel(dir, call[p].model_name),
                            ![p].steps = Append(@, "locate")]
    /\ pc' = [pc EXCEPT ![p] = After("locate")]
    /\ UNCHANGED << dir, clock, log, holdingWriter, holdingRemover >>
    /\ UNCHANGED sensVars

\* lines 54-55: dump(model_var, holding_path)
DumpHolding(p) ==
    /\ pc[p] = "hold"
    /\ dir' = Dump(dir, HoldingPath, call[p].model_var, clock)
    /\ holdingWriter' = p
    /\ holdingRemover' = 0
    /\ call' = [call EXCEPT ![p].steps = Append(@, "hold")]
    /\ pc' = [pc EXCEPT ![p] = After("hold")]
    /\ UNCHANGED << clock, log >>
    /\ UNCHANGED sensVars

\* line 58 without its "not"
MustSaveIfSame(d, most_recent_model_path) ==
    \/ most_recent_model_path = None
    \/ FileCmp(d, most_recent_model_path, HoldingPath)

\* line 56 and line 58: is the object to be saved?
MustSave(d, most_recent_model_path) ==
    \/ most_recent_model_path = None
    \/ ~FileCmp(d, most_recent_model_path, HoldingPath)

\* filecmp.cmp can stat both of its files
CanCompare(d, most_recent_model_path) ==
    \/ most_recent_model_path = None
    \/ most_recent_model_path \in DOMAIN d /\ HoldingPath \in DOMAIN d

\* lines 56-59: the commit or skip decision
Decide(p) ==
    /\ pc[p] = "decide"
    /\ CanCompare(dir, call[p].most_recent_model_path)
    /\ IF MustSave(dir, call[p].most_recent_model_path)
       THEN /\ dir' = Dump(dir, call[p].path_of_model_to_save, call[p].model_var, clock)
            /\ UNCHANGED clock
            /\ call' = [call EXCEPT ![p].outcome = "commit",
                                    ![p].steps = Append(@, "decide"),
                                    ![p].cmpWriter = IF call[p].most_recent_model_path = None
                                                     THEN 0 ELSE holdingWriter,
                                    ![p].cmpBytes = IF call[p].most_recent_model_path = None
                                                    THEN << >> ELSE dir[HoldingPath].bytes]
       ELSE /\ call' = [call EXCEPT ![p].outcome = "skip",
                                    ![p].steps = Append(@, "decide"),
                                    ![p].cmpWriter = holdingWriter,
                                    ![p].cmpBytes = dir[HoldingPath].bytes]
            /\ UNCHANGED << dir, clock >>
    /\ pc' = [pc EXCEPT ![p] = After("decide")]
    /\ UNCHANGED << log, holdingWriter, holdingRemover >>
    /\ UNCHANGED sensVars

Finished(p, d, how) ==
    [by |-> p, model_name |-> call[p].model_name, model_var |-> call[p].model_var,
     today |-> call[p].today, path_of_model_to_save |-> call[p].path_of_model_to_save,
     most_recent_model_path |-> call[p].most_recent_model_path,
     pre |-> call[p].pre, post |-> d, steps |-> call[p].steps,
     outcome |-> how, cmpWriter |-> call[p].cmpWriter, cmpBytes |-> call[p].cmpBytes,
     remover |-> holdingRemover]

\* line 60: os.remove(holding_path), and the return
Remove(p) ==
    /\ pc[p] = "remove"
    /\ HoldingPath \in DOMAIN dir
    /\ dir' = OsRemove(dir, HoldingPath)
    /\ holdingWriter' = 0
    /\ holdingRemover' = p
    /\ log' = Append(log, Finished(p, dir', call[p].outcome))
    /\ call' = [call EXCEPT ![p] = NoCall]
    /\ pc' = [pc EXCEPT ![p] = After("remove")]
    /\ UNCHANGED clock
    /\ UNCHANGED sensVars

\* line 58 when a file of the comparison is missing: FileNotFoundError
CmpFails(p) ==
    /\ pc[p] = "decide"
    /\ ~CanCompare(dir, call[p].most_recent_model_path)
    /\ log' = Append(log, Finished(p, dir, "cmp raised"))
    /\ call' = [call EXCEPT ![p] = NoCall]
    /\ pc' = [pc EXCEPT ![p] = "idle"]
    /\ UNCHANGED << dir, clock, holdingWriter, holdingRemover >>
    /\ UNCHANGED sensVars

\* line 60 when the holding file is missing: FileNotFoundError
RemoveFails(p) ==
    /\ pc[p] = "remove"
    /\ HoldingPath \notin DOMAIN dir
    /\ log' = Append(log, Finished(p, dir, "remove raised"))
    /\ call' = [call EXCEPT ![p] = NoCall]
    /\ pc' = [pc EXCEPT ![p] = "idle"]
    /\ UNCHANGED << dir, clock, holdingWriter, holdingRemover >>
    /\ UNCHANGED sensVars

DumpInit ==
    /\ dir \in InitDirs
    /\ clock = Epoch
    /\ pc = [p \in Procs |-> "idle"]
    /\ call = [p \in Procs |-> NoCall]
    /\ log = << >>
    /\ holdingWriter = 0
    /\ holdingRemover = 0

\* one call at a time: a call begins only when no call is running
BeginSeq(p) ==
    p = 1 /\ AllIdle /\ Begin(p)

vars ==
    << dumpVars, sensVars >>

\* no call of sensitivity_analysis
SensOff ==
    /\ heap = << >>
    /\ X_test_altered = "none"
    /\ sens_voi = << >>
    /\ multiplier = 0
    /\ idx = 0
    /\ sens_vars = << >>
    /\ sens_score = << >>
    /\ sens_df = << >>
    /\ spc = "off"
    /\ X_orig = << >>
    /\ scored = << >>

Init ==
    DumpInit /\ SensOff

Next ==
    \E p \in Procs :
        \/ BeginSeq(p)
        \/ Locate(p)
        \/ DumpHolding(p)
        \/ Decide(p)
        \/ Remove(p)

Spec ==
    Init /\ [][Next]_vars

\* every caller makes one call; the statements of the calls interleave
BeginRace(p) ==
    /\ \A i \in 1..Len(log) : log[i].by # p
    /\ Begin(p)

NextRace ==
    \E p \in Procs :
        \/ BeginRace(p)
        \/ Locate(p)
        \/ DumpHolding(p)
        \/ Decide(p)
        \/ Remove(p)
        \/ CmpFails(p)
        \/ RemoveFails(p)

SpecRace ==
    Init /\ [][NextRace]_vars

(* ------------------------ sensitivity_analysis ------------------------- *)
Columns ==
    {"a", "b"}

\* "zz" is a feature that is no column of the matrix
Features ==
    Columns \cup {"zz"}

Rows ==
    {1, 2}

Matrices ==
    [Columns -> [Rows -> 0..MaxCell]]

Multipliers ==
    {2, 3}

RECURSIVE SeqsUpTo(_, _)
\* the sequences over S of length at most n
SeqsUpTo(S, n) ==
    IF n = 0 THEN { << >> }
    ELSE LET shorter == SeqsUpTo(S, n - 1)
         IN  shorter \cup {Append(q, x) : q \in {r \in shorter : Len(r) = n - 1}, x \in S}

\* y_test
YTest ==
    [r \in Rows |-> r % 2]

\* a fitted classifier: model.predict_proba(X)[:, 1], a function of each row
PredictProba(X) ==
    [r \in Rows |-> X["a"][r] + 10 * X["b"][r]]

\* model.predict(X)
Predict(X) ==
    [r \in Rows |-> IF PredictProba(X)[r] > 10 THEN 1 ELSE 0]

\* scoring_func.__code__.co_varnames of the default roc_auc_score
CoVarnames ==
    {"y_true", "y_score"}

\* lines 100-102: the signals the scoring function declares
SensScoreDict(X_altered) ==
    LET all == [X_test |-> X_altered, y_true |-> YTest,
                y_score |-> PredictProba(X_altered), y_pred |-> Predict(X_altered)]
    IN  [k \in DOMAIN all \cap CoVarnames |-> all[k]]

\* a deterministic scoring function of y_true and y_score
ScoringFunc(d) ==
    d.y_score[1] + 100 * d.y_score[2] + d.y_true[1]

\* line 90 without .copy(): the local is bound to the caller's object
NoCopy(ref) ==
    ref

\* X_test.copy(): the object the copy is, given the object copied
DataFrameCopy(ref) ==
    "copy"

\* line 91 never skipping
HasColumnAlways(X, feature) ==
    TRUE

\* feature not in X_test_altered.columns, negated
HasColumn(X, feature) ==
    feature \in DOMAIN X

\* X.loc[:, feature] = X.loc[:, feature] * multiplier
Perturb(X, feature, m) ==
    [c \in DOMAIN X |-> IF c = feature THEN [r \in Rows |-> X[c][r] * m] ELSE X[c]]

\* the call, line 88: sens_vars, sens_score = [], []
SensInit ==
    /\ \E X \in Matrices :
          /\ heap = [o \in {"X_test"} |-> X]
          /\ X_orig = X
    /\ X_test_altered = "none"
    /\ sens_voi \in SeqsUpTo(Features, MaxVoi)
    /\ multiplier \in Multipliers
    /\ idx = 1
    /\ sens_vars = << >>
    /\ sens_score = << >>
    /\ sens_df = << >>
    /\ spc = "loop"
    /\ scored = << >>

\* lines 89-93: an iteration for a feature that is no column
IterSkip ==
    /\ spc = "loop"
    /\ idx <= Len(sens_voi)
    /\ LET obj == DataFrameCopy("X_test")
           copied == (obj :> heap["X_test"]) @@ heap
       IN  /\ ~HasColumn(copied[obj], sens_voi[idx])
           /\ heap' = copied
           /\ X_test_altered' = obj
    /\ idx' = idx + 1
    /\ UNCHANGED << sens_voi, multiplier, sens_vars, sens_score, sens_df, spc, X_orig, scored >>
    /\ UNCHANGED dumpVars

\* lines 89-91 and 95-103: an iteration for a column
IterScore ==
    /\ spc = "loop"
    /\ idx <= Len(sens_voi)
    /\ LET feature == sens_voi[idx]
           obj == DataFrameCopy("X_test")
           copied == (obj :> heap["X_test"]) @@ heap
           altered == [copied EXCEPT ![obj] = Perturb(copied[obj], feature, multiplier)]
       IN  /\ HasColumn(copied[obj], feature)
           /\ heap' = altered
           /\ X_test_altered' = obj
           /\ scored' = Append(scored, altered[obj])
           /\ sens_vars' = Append(sens_vars, feature)
           /\ sens_score' = Append(sens_score, ScoringFunc(SensScoreDict(altered[obj])))
    /\ idx' = idx + 1
    /\ UNCHANGED << sens_voi, multiplier, sens_df, spc, X_orig >>
    /\ UNCHANGED dumpVars

\* lines 105-106: pd.DataFrame(zip(sens_vars, sens_score), ...) is returned
SensReturn ==
    /\ spc = "loop"
    /\ idx > Len(sens_voi)
    /\ sens_df' = [k \in 1..Len(sens_vars) |-> << sens_vars[k], sens_score[k] >>]
    /\ spc' = "done"
    /\ UNCHANGED << heap, X_test_altered, sens_voi, multiplier, idx, sens_vars,
                    sens_score, X_orig, scored >>
    /\ UNCHANGED dumpVars

\* no call of dump_diff_model
DumpOff ==
    /\ dir = << >>
    /\ clock = Epoch
    /\ pc = [p \in Procs |-> "idle"]
    /\ call = [p \in Procs |-> NoCall]
    /\ log = << >>
    /\ holdingWriter = 0
    /\ holdingRemover = 0

InitSens ==
    SensInit /\ DumpOff

NextSens ==
    \/ IterSkip
    \/ IterScore
    \/ SensReturn

SpecSens ==
    InitSens /\ [][NextSens]_vars

(* ------------------------------ properties ----------------------------- *)
\* the regular files the Locator attributes to a logical name
FilesOf(d, model_name) ==
    {f \in DOMAIN d : d[f].kind = "file" /\ StartsWith(f, model_name)}

Returned(e) ==
    e.outcome \in {"commit", "skip"}

\* two calls in a row, both returned, under the same logical name, the first
\* starting from a directory without a file of that name
TwoInARow(i) ==
    /\ i \in 1..(Len(log) - 1)
    /\ Returned(log[i]) /\ Returned(log[i + 1])
    /\ log[i].model_name = log[i + 1].model_name
    /\ log[i + 1].pre = log[i].post
    /\ FilesOf(log[i].pre, log[i].model_name) = {}

DumperChangeDetection ==
    \A i \in 1..(Len(log) - 1) :
        (/\ TwoInARow(i)
         /\ Pickle(log[i].model_var) # Pickle(log[i + 1].model_var)
         /\ ~TimeLeq(log[i + 1].today, log[i].today))
        => /\ Cardinality(FilesOf(log[i + 1].post, log[i].model_name)) = 2
           /\ MostRecentModel(log[i + 1].post, log[i].model_name)
                 = log[i + 1].path_of_model_to_save

\* C3. Cleanup: the holding file does not exist after a call that returned,
\* whether it committed or skipped.
DumperCleanup ==
    /\ \A i \in 1..Len(log) : Returned(log[i]) => HoldingPath \notin DOMAIN log[i].post
    /\ (AllIdle /\ Len(log) > 0) => HoldingPath \notin DOMAIN dir

DumperCleanupWitness ==
    /\ AllIdle
    /\ \E i, j \in 1..Len(log) : log[i].outcome = "commit" /\ log[j].outcome = "skip"

\* the names the Locator is asked for: the model names, a prefix of the holding
\* file's name, a name of no file, and the empty name
ProbeNames ==
    ModelNames \cup { << "h" >>, << "o" >>, << "z", "z", "z" >>, << >> }

LocatorResultFor(d, model_name) ==
    LET r == MostRecentModel(d, model_name)
    IN  /\ (r = None) <=> (FilesOf(d, model_name) = {})
        /\ r # None =>
              /\ r \in FilesOf(d, model_name)
              /\ \A g \in FilesOf(d, model_name) : ~StrLess(r, g)

\* C4. Locator result: the lexically greatest regular file whose name starts
\* with the logical name, and None exactly when there is no such file.
LocatorResult ==
    \A model_name \in ProbeNames : LocatorResultFor(dir, model_name)

LocatorResultWitness ==
    /\ SubDir \in DOMAIN dir
    /\ OtherFile \in DOMAIN dir
    /\ Cardinality(FilesOf(dir, << "m" >>)) >= 2
    /\ StrLess(MostRecentModel(dir, << "m" >>), SubDir)
    /\ MostRecentModel(dir, << "z", "z", "z" >>) = None

\* C5. Frame: a call that returned left every file it found as it was and
\* added at most the file <name>_<timestamp>.
DumperFrame ==
    \A i \in 1..Len(log) :
        Returned(log[i]) =>
            /\ \A f \in DOMAIN log[i].pre :
                  /\ f \in DOMAIN log[i].post
                  /\ log[i].post[f].kind = log[i].pre[f].kind
                  /\ log[i].post[f].bytes = log[i].pre[f].bytes
            /\ (DOMAIN log[i].post) \ (DOMAIN log[i].pre) \subseteq {log[i].path_of_model_to_save}

Before(steps, first, second) ==
    \A i \in 1..Len(steps) :
        steps[i] = second => \E j \in 1..(i - 1) : steps[j] = first

AllSteps ==
    {call[p].steps : p \in Procs} \cup {log[i].steps : i \in 1..Len(log)}

\* C9 as claimed. Step order: the object is serialized to the holding file
\* before the Locator is invoked, and the decision follows both.
HoldingBeforeLocator ==
    \A steps \in AllSteps :
        /\ Before(steps, "hold", "locate")
        /\ Before(steps, "hold", "decide")
        /\ Before(steps, "locate", "decide")

\* C9 as amended. Step order: the Locator is invoked before the object is
\* serialized to the holding file, and the decision follows both.
LocatorBeforeHolding ==
    \A steps \in AllSteps :
        /\ Before(steps, "locate", "hold")
        /\ Before(steps, "hold", "decide")
        /\ Before(steps, "locate", "decide")

LocatorBeforeHoldingWitness ==
    \E i \in 1..Len(log) :
        /\ Returned(log[i])
        /\ log[i].steps = << "locate", "hold", "decide" >>
        /\ log[i].most_recent_model_path # None

IsArtifactOf(f, model_name) ==
    \E t \in Times : f = PathOfModelToSave(model_name, t)

\* C10. Isolation: the file a dump under a name is compared against is an
\* artifact dumped under that name, never one of another name.
NameIsolation ==
    \A i \in 1..Len(log) :
        log[i].most_recent_model_path # None
        => IsArtifactOf(log[i].most_recent_model_path, log[i].model_name)

\* C8. Holding-file race: a call compares its latest artifact against bytes
\* that are not its own object's only when another caller wrote the holding
\* file, and its comparison or removal finds the holding file missing only
\* when another caller removed it; both happen.
HoldingRace ==
    \A i \in 1..Len(log) :
        /\ (log[i].cmpWriter # 0 /\ log[i].cmpBytes # Pickle(log[i].model_var))
           => log[i].cmpWriter # log[i].by
        /\ log[i].outcome \in {"remove raised", "cmp raised"}
           => log[i].remover \notin {0, log[i].by}

\* a call that committed a copy of the artifact it should have skipped, having
\* compared it with the other caller's bytes, and a call whose removal failed
HoldingRaceWitness ==
    \E i, j \in 1..Len(log) :
        /\ log[i].outcome = "commit"
        /\ log[i].cmpWriter \notin {0, log[i].by}
        /\ log[i].cmpBytes # Pickle(log[i].model_var)
        /\ log[i].pre[log[i].most_recent_model_path].bytes = Pickle(log[i].model_var)
        /\ log[j].outcome = "remove raised"

\* the features of sens_voi that are columns, in the order of sens_voi
RECURSIVE Retained(_, _)
Retained(voi, X) ==
    IF voi = << >> THEN << >>
    ELSE (IF Head(voi) \in DOMAIN X THEN << Head(voi) >> ELSE << >>) \o Retained(Tail(voi), X)

\* C6. Sensitivity rows: the returned table has one row per element of
\* sens_voi that is a column, in the order of sens_voi, and none for the rest.
SensitivityRows ==
    /\ spc = "loop" => sens_vars = Retained(SubSeq(sens_voi, 1, idx - 1), X_orig)
    /\ spc = "done" => [k \in 1..Len(sens_df) |-> sens_df[k][1]] = Retained(sens_voi, X_orig)

SensitivityRowsWitness ==
    /\ spc = "done"
    /\ \E k \in 1..Len(sens_voi) : sens_voi[k] \notin DOMAIN X_orig
    /\ Len(sens_df) > 0
    /\ Len(sens_df) < Len(sens_voi)

\* C7. No leak: the score of each row is that of the caller's matrix with the
\* row's column alone multiplied, and the caller's matrix is unchanged.
SensitivityNoLeak ==
    /\ spc \in {"loop", "done"} => heap["X_test"] = X_orig
    /\ Len(scored) = Len(sens_vars) /\ Len(sens_score) = Len(sens_vars)
    /\ \A k \in 1..Len(sens_vars) :
          /\ scored[k] = Perturb(X_orig, sens_vars[k], multiplier)
          /\ \A c \in Columns \ {sens_vars[k]} : scored[k][c] = X_orig[c]
          /\ \A r \in Rows : scored[k][sens_vars[k]][r] = X_orig[sens_vars[k]][r] * multiplier
          /\ sens_score[k] = ScoringFunc(SensScoreDict(Perturb(X_orig, sens_vars[k], multiplier)))
    /\ spc = "done" => \A k \in 1..Len(sens_df) : sens_df[k][2] = sens_score[k]

SensitivityNoLeakWitness ==
    /\ spc = "done"
    /\ Len(sens_df) = 2
    /\ sens_df[1][1] # sens_df[2][1]
    /\ scored[1] # X_orig
    /\ scored[2] # X_orig

====
